---- MODULE Spec2Model ----
(***************************************************************************)
(* Shop API (src/main.py): an in-memory item store and cart store behind   *)
(* FastAPI handlers.                                                        *)
(*                                                                          *)
(* items_db and carts_db are Python dicts: insertion-ordered maps from an   *)
(* integer key to an object reference.  The objects live in item_objs and   *)
(* cart_objs (the heap), because handlers hold references to them while a   *)
(* dict entry may be rebound to a fresh object.                             *)
(*                                                                          *)
(* Prices are Python floats.  A float is modelled as an integer number of   *)
(* units that has at most MantBits significant bits; arithmetic rounds to   *)
(* nearest, ties to even, as IEEE 754 does (binary64 has 53 bits; the model *)
(* scales the width down so that rounding happens on small numbers).        *)
(*                                                                          *)
(* Values reaching setattr in patch_item are not range-checked.  In Spec    *)
(* they are of the JSON type of the field (a string for name, a number for  *)
(* price); AnySpec adds bodies whose price is JSON null.                    *)
(***************************************************************************)
EXTENDS Integers, Sequences, FiniteSets, TLC

VARIABLES items_db, carts_db, item_objs, cart_objs, frames

vars == <<items_db, carts_db, item_objs, cart_objs, frames>>

store == <<items_db, carts_db, item_objs, cart_objs>>

----------------------------------------------------------------------------
(* Bounds of the model *)

(* items, carts and additions to carts in the general specification *)
MaxItems == 2

MaxCarts == 2

MaxAdds == 2

(* significant bits of a float *)
MantBits == 2

(* additions to the cart in the repeated-addition specification *)
MaxRepeat == 6

(* requests a worker thread serves in the threaded specification *)
MaxRequests == 2

Names == {"pen", "ink"}

(* request prices: one that ItemPost rejects, and accepted ones *)
PostPrices == {-1, 3}

(* numbers a PATCH body can carry for "price" *)
PatchPrices == {-1, 2}

(* keys a PATCH body can carry *)
Keys == {"name", "price", "deleted", "id"}

Threads == {1, 2}

----------------------------------------------------------------------------
(* Python float arithmetic *)

RECURSIVE Pow2(_)
Pow2(n) == IF n = 0 THEN 1 ELSE 2 * Pow2(n - 1)

Abs(x) == IF x < 0 THEN -x ELSE x

(* the spacing of floats around magnitude x: the least power of two u with x < 2^MantBits * u *)
RECURSIVE UlpFrom(_, _)
UlpFrom(x, u) == IF x < Pow2(MantBits) * u THEN u ELSE UlpFrom(x, 2 * u)

Ulp(x) == UlpFrom(Abs(x), 1)

(* round to nearest representable, ties to the even mantissa *)
FlRound(x) ==
    LET a == Abs(x)
        u == Ulp(x)
        q == a \div u
        r == a % u
        up == (2 * r > u) \/ (2 * r = u /\ q % 2 = 1)
        m == (IF up THEN q + 1 ELSE q) * u
    IN IF x < 0 THEN -m ELSE m

FlAdd(a, b) == FlRound(a + b)

FlMul(a, b) == FlRound(a * b)

----------------------------------------------------------------------------
(* Python dict: insertion-ordered, keys unique *)

DictKeys(d) == {d[i].k : i \in 1..Len(d)}

DictHas(d, key) == \E i \in 1..Len(d) : d[i].k = key

DictPos(d, key) == CHOOSE i \in 1..Len(d) : d[i].k = key

DictGet(d, key) == d[DictPos(d, key)].ref

(* d[key] = ref : rebinding an existing key keeps its position *)
DictSet(d, key, ref) ==
    IF DictHas(d, key)
    THEN [d EXCEPT ![DictPos(d, key)] = [k |-> key, ref |-> ref]]
    ELSE Append(d, [k |-> key, ref |-> ref])

(* list(d.values()) as references *)
DictValues(d) == [i \in 1..Len(d) |-> d[i].ref]

----------------------------------------------------------------------------
(* Objects *)

(* Item(id=, name=, price=) : deleted defaults to False *)
NewItem(id, name, price) == [id |-> id, name |-> name, price |-> price, deleted |-> FALSE]

(* Cart(id=) : items defaults to [], price to 0.0 *)
NewCart(id) == [id |-> id, items |-> <<>>, price |-> 0]

(* CartItem(id=, name=, quantity=) *)
NewCartItem(id, name, quantity) == [id |-> id, name |-> name, quantity |-> quantity]

(* ItemPost validation at the HTTP boundary: price is a non-negative float *)
ItemPostValid(name, price) == name \in Names /\ price >= 0

(* the item / cart object currently bound to a key *)
ItemOf(key) == item_objs[DictGet(items_db, key)]

CartOf(key) == cart_objs[DictGet(carts_db, key)]

RECURSIVE SumQuantity(_)
SumQuantity(items) ==
    IF items = <<>> THEN 0 ELSE Head(items).quantity + SumQuantity(Tail(items))

RECURSIVE TotalQuantity(_)
TotalQuantity(objs) ==
    IF objs = <<>> THEN 0 ELSE SumQuantity(Head(objs).items) + TotalQuantity(Tail(objs))

(* where a newly constructed object is placed: the next slot of the heap *)
Alloc(objs) == Len(objs) + 1

Store(objs, ref, obj) ==
    IF ref = Len(objs) + 1 THEN Append(objs, obj) ELSE [objs EXCEPT ![ref] = obj]

(* the frame of a worker thread: the handler it runs (op), where it stands (pc),
   its parameters and locals, the response once it has returned, and the number
   of requests it has served (n).  entry and overlap record what the request
   met when it arrived: the cart object as it was, and the number of the
   request the other thread was inside (0 if it was inside none). *)
Idle == [pc |-> "idle", op |-> "", name |-> "", price |-> 0, cart_id |-> 0, item_id |-> 0,
         cart |-> 0, item |-> 0, i |-> 0, tmp |-> 0, status |-> 0, n |-> 0,
         entry |-> <<>>, overlap |-> 0]

(* a handler frame holds a reference to item object ref *)
HeldItem(ref) ==
    \E t \in Threads :
        /\ frames[t].pc \in {"add_scan", "add_read_quantity", "add_write_quantity", "add_append", "add_read_price", "add_write_price"}
        /\ frames[t].item = ref

(* items_db[key] = obj for a newly constructed obj: the dict and the heap afterwards.
   Rebinding a key drops the last reference to its old object unless a frame holds
   one; the new object then takes the old one's slot (object identity is not
   observable by the handlers). *)
BindItem(key, obj) ==
    LET reuse == DictHas(items_db, key) /\ ~HeldItem(DictGet(items_db, key))
        ref == IF reuse THEN DictGet(items_db, key) ELSE Alloc(item_objs)
    IN [db |-> DictSet(items_db, key, ref), objs |-> Store(item_objs, ref, obj)]

(* carts_db[key] = obj for a newly constructed obj: the dict and the heap afterwards *)
BindCart(key, obj) ==
    LET ref == Alloc(cart_objs)
    IN [db |-> DictSet(carts_db, key, ref), objs |-> Store(cart_objs, ref, obj)]

None == -1

(* JSON null: patch_item takes its body as dict[str, Any], so a value can be
   of any JSON type; null stands for the values that are not numbers.  An
   item's price can hold it, because setattr stores what it is given. *)
Null == -99

IsNumber(x) == x # Null

(* an HTTP response: status code and body *)
Response(status, body) == [status |-> status, body |-> body]

(* response_model=ItemResponse : id, name, price *)
ItemResponse(item) == [id |-> item.id, name |-> item.name, price |-> item.price]

----------------------------------------------------------------------------
Init ==
    /\ items_db = <<>>
    /\ carts_db = <<>>
    /\ item_objs = <<>>
    /\ cart_objs = <<>>
    /\ frames = [t \in Threads |-> Idle]

----------------------------------------------------------------------------
(* Item handlers, each run to completion.  For a handler h, h_response is *)
(* the HTTP response it gives in the current state and h its effect.      *)

(* mutant of create_item: the id is len(items_db), without the + 1 *)
create_item_from_zero(name, price) ==
    /\ IF ~ItemPostValid(name, price)
       THEN UNCHANGED store
       ELSE LET item_id == Len(items_db)
                new_item == NewItem(item_id, name, price)
            IN /\ item_objs' = BindItem(item_id, new_item).objs
               /\ items_db' = BindItem(item_id, new_item).db
               /\ UNCHANGED <<carts_db, cart_objs>>
    /\ UNCHANGED frames

(* POST /item *)
create_item_response(name, price) ==
    IF ~ItemPostValid(name, price) THEN Response(422, <<>>)
    ELSE Response(201, ItemResponse(NewItem(Len(items_db) + 1, name, price)))

create_item(name, price) ==
    /\ IF ~ItemPostValid(name, price)
       THEN UNCHANGED store
       ELSE LET item_id == Len(items_db) + 1
                new_item == NewItem(item_id, name, price)
            IN /\ item_objs' = BindItem(item_id, new_item).objs
               /\ items_db' = BindItem(item_id, new_item).db
               /\ UNCHANGED <<carts_db, cart_objs>>
    /\ UNCHANGED frames

(* mutant of get_item_response: the deleted flag is not looked at *)
get_item_response_ignoring_deleted(id) ==
    IF ~DictHas(items_db, id)
    THEN Response(404, <<>>)
    ELSE Response(200, ItemResponse(ItemOf(id)))

(* GET /item/{id} *)
get_item_response(id) ==
    IF ~DictHas(items_db, id) \/ ItemOf(id).deleted
    THEN Response(404, <<>>)
    ELSE IF ~IsNumber(ItemOf(id).price)
    THEN Response(500, <<>>)    \* response_model: price is not a float
    ELSE Response(200, ItemResponse(ItemOf(id)))

get_item(id) ==
    /\ get_item_response(id).status \in {200, 404, 500}
    /\ UNCHANGED <<store, frames>>

(* seq[offset:offset + limit] *)
Slice(seq, offset, limit) ==
    LET hi == IF offset + limit < Len(seq) THEN offset + limit ELSE Len(seq)
    IN IF offset >= hi THEN <<>> ELSE SubSeq(seq, offset + 1, hi)

(* mutant of get_item_list_response: the filter is applied before the slice *)
get_item_list_response_filter_first(offset, limit, min_price, max_price, show_deleted) ==
    LET values == [i \in 1..Len(items_db) |-> item_objs[items_db[i].ref]]
        keep(item) == /\ (show_deleted \/ ~item.deleted)
                      /\ (min_price = None \/ item.price >= min_price)
                      /\ (max_price = None \/ item.price <= max_price)
    IN Response(200, Slice(SelectSeq(values, keep), offset, limit))

(* GET /item *)
get_item_list_response(offset, limit, min_price, max_price, show_deleted) ==
    LET values == [i \in 1..Len(items_db) |-> item_objs[items_db[i].ref]]
        keep(item) == /\ (show_deleted \/ ~item.deleted)
                      /\ (min_price = None \/ item.price >= min_price)
                      /\ (max_price = None \/ item.price <= max_price)
        window == Slice(values, offset, limit)
        \* an item that gets past the deleted test with a price that is no
        \* number: the comparisons raise TypeError, or response_model rejects it
        raises == \E i \in 1..Len(window) :
                     (show_deleted \/ ~window[i].deleted) /\ ~IsNumber(window[i].price)
    IN IF raises THEN Response(500, <<>>) ELSE Response(200, SelectSeq(window, keep))

get_item_list(offset, limit, min_price, max_price, show_deleted) ==
    /\ get_item_list_response(offset, limit, min_price, max_price, show_deleted).status \in {200, 500}
    /\ UNCHANGED <<store, frames>>

(* mutant of update_item: the new record keeps the deleted flag of the old one *)
update_item_keeping_deleted(id, name, price) ==
    /\ IF ~ItemPostValid(name, price) \/ ~DictHas(items_db, id)
       THEN UNCHANGED store
       ELSE LET new_item == [NewItem(id, name, price) EXCEPT !.deleted = ItemOf(id).deleted]
            IN /\ item_objs' = BindItem(id, new_item).objs
               /\ items_db' = BindItem(id, new_item).db
               /\ UNCHANGED <<carts_db, cart_objs>>
    /\ UNCHANGED frames

(* PUT /item/{id} *)
update_item_response(id, name, price) ==
    IF ~ItemPostValid(name, price) THEN Response(422, <<>>)
    ELSE IF ~DictHas(items_db, id) THEN Response(404, <<>>)
    ELSE Response(200, ItemResponse(NewItem(id, name, price)))

update_item(id, name, price) ==
    /\ IF ~ItemPostValid(name, price) \/ ~DictHas(items_db, id)
       THEN UNCHANGED store
       ELSE LET new_item == NewItem(id, name, price)
            IN /\ item_objs' = BindItem(id, new_item).objs
               /\ items_db' = BindItem(id, new_item).db
               /\ UNCHANGED <<carts_db, cart_objs>>
    /\ UNCHANGED frames

(* mutant of allowed_fields: every field of Item but deleted may be patched *)
allowed_fields_with_id == {"id", "name", "price"}

allowed_fields == {"name", "price"}

(* setattr(item, key, value) *)
SetAttr(item, key, value) == [item EXCEPT ![key] = value]

(* the loop of patch_item over body.items(): the item as the loop leaves it,
   and whether the loop ran to its end (ok) or raised *)
RECURSIVE PatchLoop(_, _)
PatchLoop(item, body) ==
    IF body = <<>> THEN [item |-> item, ok |-> TRUE]
    ELSE IF Head(body).key \in allowed_fields
         THEN PatchLoop(SetAttr(item, Head(body).key, Head(body).val), Tail(body))
         ELSE [item |-> item, ok |-> FALSE]

(* mutant of patch_item: the loop over the body runs before the deleted check *)
patch_item_checking_late(id, body) ==
    /\ IF ~DictHas(items_db, id)
       THEN UNCHANGED store
       ELSE LET ref == DictGet(items_db, id)
            IN /\ item_objs' = [item_objs EXCEPT ![ref] = PatchLoop(item_objs[ref], body).item]
               /\ UNCHANGED <<items_db, carts_db, cart_objs>>
    /\ UNCHANGED frames

(* PATCH /item/{id} *)
patch_item_response(id, body) ==
    IF ~DictHas(items_db, id) THEN Response(404, <<>>)
    ELSE IF ItemOf(id).deleted THEN Response(304, <<>>)
    ELSE IF ~PatchLoop(ItemOf(id), body).ok
    THEN Response(422, <<>>)
    ELSE IF ~IsNumber(PatchLoop(ItemOf(id), body).item.price)
    THEN Response(500, <<>>)    \* response_model: price is not a float
    ELSE Response(200, ItemResponse(PatchLoop(ItemOf(id), body).item))

patch_item(id, body) ==
    /\ IF ~DictHas(items_db, id)
       THEN UNCHANGED store
       ELSE IF ItemOf(id).deleted
       THEN UNCHANGED store
       ELSE LET ref == DictGet(items_db, id)
            IN /\ item_objs' = [item_objs EXCEPT ![ref] = PatchLoop(item_objs[ref], body).item]
               /\ UNCHANGED <<items_db, carts_db, cart_objs>>
    /\ UNCHANGED frames

(* mutant of delete_item: the entry is removed (del items_db[id]) instead of flagged *)
delete_item_removes(id) ==
    /\ IF ~DictHas(items_db, id)
       THEN UNCHANGED store
       ELSE /\ items_db' = SelectSeq(items_db, LAMBDA e : e.k # id)
            /\ UNCHANGED <<item_objs, carts_db, cart_objs>>
    /\ UNCHANGED frames

(* mutant of delete_item: the flag is flipped instead of set *)
delete_item_toggling(id) ==
    /\ IF ~DictHas(items_db, id)
       THEN UNCHANGED store
       ELSE /\ item_objs' = [item_objs EXCEPT ![DictGet(items_db, id)].deleted = ~@]
            /\ UNCHANGED <<items_db, carts_db, cart_objs>>
    /\ UNCHANGED frames

(* DELETE /item/{id} *)
delete_item_response(id) ==
    IF ~DictHas(items_db, id) THEN Response(404, <<>>) ELSE Response(200, <<>>)

delete_item(id) ==
    /\ IF ~DictHas(items_db, id)
       THEN UNCHANGED store
       ELSE /\ item_objs' = [item_objs EXCEPT ![DictGet(items_db, id)].deleted = TRUE]
            /\ UNCHANGED <<items_db, carts_db, cart_objs>>
    /\ UNCHANGED frames

----------------------------------------------------------------------------
(* Cart handlers, each run to completion *)

(* POST /cart *)
create_cart_response == Response(201, [id |-> Len(carts_db) + 1])

create_cart ==
    /\ LET cart_id == Len(carts_db) + 1
       IN /\ cart_objs' = BindCart(cart_id, NewCart(cart_id)).objs
          /\ carts_db' = BindCart(cart_id, NewCart(cart_id)).db
    /\ UNCHANGED <<items_db, item_objs, frames>>

(* GET /cart/{id} *)
get_cart_response(id) ==
    IF ~DictHas(carts_db, id) THEN Response(404, <<>>) ELSE Response(200, CartOf(id))

get_cart(id) ==
    /\ get_cart_response(id).status \in {200, 404}
    /\ UNCHANGED <<store, frames>>

(* mutant of get_cart_list_response: the quantity of a cart is taken to be
   the number of its CartItems *)
get_cart_list_response_counting_entries(offset, limit, min_price, max_price, min_quantity, max_quantity) ==
    LET values == [i \in 1..Len(carts_db) |-> cart_objs[carts_db[i].ref]]
        keep(cart) == /\ (min_price = None \/ cart.price >= min_price)
                      /\ (max_price = None \/ cart.price <= max_price)
                      /\ (min_quantity = None \/ Len(cart.items) >= min_quantity)
                      /\ (max_quantity = None \/ Len(cart.items) <= max_quantity)
    IN Response(200, SelectSeq(Slice(values, offset, limit), keep))

(* GET /cart *)
get_cart_list_response(offset, limit, min_price, max_price, min_quantity, max_quantity) ==
    LET values == [i \in 1..Len(carts_db) |-> cart_objs[carts_db[i].ref]]
        keep(cart) == /\ (min_price = None \/ cart.price >= min_price)
                      /\ (max_price = None \/ cart.price <= max_price)
                      /\ (min_quantity = None \/ SumQuantity(cart.items) >= min_quantity)
                      /\ (max_quantity = None \/ SumQuantity(cart.items) <= max_quantity)
    IN Response(200, SelectSeq(Slice(values, offset, limit), keep))

get_cart_list(offset, limit, min_price, max_price, min_quantity, max_quantity) ==
    /\ get_cart_list_response(offset, limit, min_price, max_price, min_quantity, max_quantity).status = 200
    /\ UNCHANGED <<store, frames>>

(* mutant of FindCartItem: the loop never matches, so every addition appends *)
FindCartItemMissing(items, id) == 0

(* the for/else loop of add_to_cart: the position of the first CartItem with
   this id, 0 if the loop falls through to its else *)
FindCartItem(items, id) ==
    IF \E i \in 1..Len(items) : items[i].id = id
    THEN CHOOSE i \in 1..Len(items) : items[i].id = id /\ \A j \in 1..(i - 1) : items[j].id # id
    ELSE 0

(* mutant of AddItem: the price is recomputed as quantity times the current price *)
AddItemRecomputed(cart, item) ==
    LET pos == FindCartItem(cart.items, item.id)
        items == IF pos # 0
                 THEN [cart.items EXCEPT ![pos].quantity = @ + 1]
                 ELSE Append(cart.items, NewCartItem(item.id, item.name, 1))
    IN [cart EXCEPT !.items = items, !.price = FlMul(SumQuantity(items), item.price)]

(* mutant of AddItem: the price is raised only when a CartItem is appended *)
AddItemChargesOnce(cart, item) ==
    LET pos == FindCartItem(cart.items, item.id)
    IN IF pos # 0
       THEN [cart EXCEPT !.items[pos].quantity = @ + 1]
       ELSE [cart EXCEPT !.items = Append(@, NewCartItem(item.id, item.name, 1)),
                         !.price = FlAdd(cart.price, item.price)]

(* mutant of AddItem: a repeated addition copies the item's current name *)
AddItemSyncingName(cart, item) ==
    LET pos == FindCartItem(cart.items, item.id)
        items == IF pos # 0
                 THEN [cart.items EXCEPT ![pos].quantity = @ + 1, ![pos].name = item.name]
                 ELSE Append(cart.items, NewCartItem(item.id, item.name, 1))
    IN [cart EXCEPT !.items = items, !.price = FlAdd(cart.price, item.price)]

(* lines 132-140 of add_to_cart on a cart object and an item object.  With a
   price that is no number, line 140 raises TypeError after the loop has
   changed cart.items: the price stays. *)
AddItem(cart, item) ==
    LET pos == FindCartItem(cart.items, item.id)
        items == IF pos # 0
                 THEN [cart.items EXCEPT ![pos].quantity = @ + 1]
                 ELSE Append(cart.items, NewCartItem(item.id, item.name, 1))
    IN [cart EXCEPT !.items = items,
                    !.price = IF IsNumber(item.price) THEN FlAdd(cart.price, item.price) ELSE @]

(* mutant of AddAccepted: the item's deleted flag is not checked *)
AddAcceptedIgnoringDeleted(cart_id, item_id) ==
    /\ DictHas(carts_db, cart_id)
    /\ DictHas(items_db, item_id)

(* the two 404 checks of add_to_cart pass *)
AddAccepted(cart_id, item_id) ==
    /\ DictHas(carts_db, cart_id)
    /\ DictHas(items_db, item_id)
    /\ ~ItemOf(item_id).deleted

(* POST /cart/{cart_id}/add/{item_id} *)
add_to_cart_response(cart_id, item_id) ==
    IF ~AddAccepted(cart_id, item_id) THEN Response(404, <<>>)
    ELSE IF ~IsNumber(ItemOf(item_id).price) THEN Response(500, <<>>)
    ELSE Response(200, AddItem(CartOf(cart_id), ItemOf(item_id)))

add_to_cart(cart_id, item_id) ==
    /\ IF ~AddAccepted(cart_id, item_id)
       THEN UNCHANGED store
       ELSE /\ cart_objs' = [cart_objs EXCEPT ![DictGet(carts_db, cart_id)] = AddItem(@, ItemOf(item_id))]
            /\ UNCHANGED <<items_db, item_objs, carts_db>>
    /\ UNCHANGED frames

----------------------------------------------------------------------------
(* Requests *)

ItemIds == 1..(MaxItems + 1)

CartIds == 1..(MaxCarts + 1)

Offsets == 0..MaxItems

Limits == 1..MaxItems

PriceBounds == {None, 0, 3}

QuantityBounds == {None, 0, 1}

KeyValues(key) ==
    IF key = "name" THEN Names ELSE IF key = "price" THEN PatchPrices ELSE {1}

Fields == UNION {{[key |-> key, val |-> v] : v \in KeyValues(key)} : key \in Keys}

(* JSON objects in key order: sequences of at most two fields with distinct keys *)
Bodies ==
    {<<>>} \cup {<<f>> : f \in Fields}
           \cup {b \in {<<f, g>> : f \in Fields, g \in Fields} : b[1].key # b[2].key}

(* the handlers whose effect grows a store, stopped at the bounds of the model *)
BoundedCreateItem ==
    Len(items_db) < MaxItems /\ \E name \in Names, price \in PostPrices : create_item(name, price)

BoundedCreateCart == Len(carts_db) < MaxCarts /\ create_cart

BoundedAddToCart ==
    TotalQuantity(cart_objs) < MaxAdds /\ \E cart_id \in CartIds, item_id \in ItemIds : add_to_cart(cart_id, item_id)

(* every request but PATCH *)
OtherRequests ==
    \/ BoundedCreateItem
    \/ \E id \in ItemIds : get_item(id)
    \/ \E offset \in {0, 1}, min_price \in {None, 3}, show_deleted \in BOOLEAN :
          get_item_list(offset, 1, min_price, None, show_deleted)
    \/ \E id \in ItemIds, name \in Names, price \in PostPrices : update_item(id, name, price)
    \/ \E id \in ItemIds : delete_item(id)
    \/ BoundedCreateCart
    \/ \E id \in CartIds : get_cart(id)
    \/ \E offset \in {0, 1}, max_price \in {None, 3}, min_quantity \in {None, 1} :
          get_cart_list(offset, 1, None, max_price, min_quantity, None)
    \/ BoundedAddToCart

Next ==
    \/ \E id \in ItemIds, body \in Bodies : patch_item(id, body)
    \/ OtherRequests

Spec == Init /\ [][Next]_vars

(* PATCH bodies that set the price alone, to a number or to null *)
AnyBodies == {<<[key |-> "price", val |-> v]>> : v \in PatchPrices \cup {Null}}

(* The same requests, with PATCH bodies whose price can be JSON null *)
AnyNext ==
    \/ \E id \in ItemIds, body \in AnyBodies : patch_item(id, body)
    \/ OtherRequests

AnySpec == Init /\ [][AnyNext]_vars

(* The item handlers alone: the item store is read and written by no other
   handler (create_cart and add_to_cart leave items_db and its objects as
   they are), so its reachable states are those of this specification. *)
ItemNext ==
    \/ BoundedCreateItem
    \/ \E id \in ItemIds : get_item(id)
    \/ \E offset \in Offsets, limit \in Limits, min_price \in PriceBounds,
          max_price \in PriceBounds, show_deleted \in BOOLEAN :
          get_item_list(offset, limit, min_price, max_price, show_deleted)
    \/ \E id \in ItemIds, body \in Bodies : patch_item(id, body)
    \/ \E id \in ItemIds, name \in Names, price \in PostPrices : update_item(id, name, price)
    \/ \E id \in ItemIds : delete_item(id)

ItemSpec == Init /\ [][ItemNext]_vars

----------------------------------------------------------------------------
(* The handlers as FastAPI runs them: each request on a worker thread of   *)
(* the thread pool (the handlers are plain def functions), with no lock    *)
(* around the stores, so threads interleave between reads and writes.      *)

Running(t) == frames[t].pc \notin {"idle", "done"}

(* a request arrives and is given to thread t *)
Begin(t, op, name, price, cart_id, item_id) ==
    /\ ~Running(t)
    /\ frames[t].n < MaxRequests
    /\ frames' = [frames EXCEPT ![t] =
          [Idle EXCEPT !.pc = op, !.op = op, !.name = name, !.price = price,
                       !.cart_id = cart_id, !.item_id = item_id, !.n = frames[t].n + 1,
                       !.entry = IF op = "add_to_cart" /\ DictHas(carts_db, cart_id)
                                 THEN <<CartOf(cart_id)>> ELSE <<>>,
                       !.overlap = IF \E u \in Threads \ {t} : Running(u)
                                   THEN frames[CHOOSE u \in Threads \ {t} : Running(u)].n ELSE 0]]
    /\ UNCHANGED store

(* line 27: item_id = len(items_db) + 1 *)
create_item_len(t) ==
    /\ frames[t].pc = "create_item"
    /\ frames' = [frames EXCEPT ![t].pc = "create_item_store", ![t].i = Len(items_db) + 1]
    /\ UNCHANGED store

(* lines 28-33: new_item = Item(...); items_db[item_id] = new_item; return *)
create_item_store(t) ==
    /\ frames[t].pc = "create_item_store"
    /\ LET new_item == NewItem(frames[t].i, frames[t].name, frames[t].price)
       IN /\ item_objs' = BindItem(frames[t].i, new_item).objs
          /\ items_db' = BindItem(frames[t].i, new_item).db
    /\ frames' = [frames EXCEPT ![t].pc = "done", ![t].status = 201]
    /\ UNCHANGED <<carts_db, cart_objs>>

(* line 95: cart_id = len(carts_db) + 1 *)
create_cart_len(t) ==
    /\ frames[t].pc = "create_cart"
    /\ frames' = [frames EXCEPT ![t].pc = "create_cart_store", ![t].i = Len(carts_db) + 1]
    /\ UNCHANGED store

(* lines 96-99: carts_db[cart_id] = Cart(id=cart_id); return *)
create_cart_store(t) ==
    /\ frames[t].pc = "create_cart_store"
    /\ cart_objs' = BindCart(frames[t].i, NewCart(frames[t].i)).objs
    /\ carts_db' = BindCart(frames[t].i, NewCart(frames[t].i)).db
    /\ frames' = [frames EXCEPT ![t].pc = "done", ![t].status = 201, ![t].cart = Alloc(cart_objs)]
    /\ UNCHANGED <<items_db, item_objs>>

(* lines 127-133: the two checks, then item = items_db[item_id]; cart = carts_db[cart_id] *)
add_check(t) ==
    /\ frames[t].pc = "add_to_cart"
    /\ frames' = [frames EXCEPT ![t] =
          IF ~AddAccepted(frames[t].cart_id, frames[t].item_id)
          THEN [@ EXCEPT !.pc = "done", !.status = 404]
          ELSE [@ EXCEPT !.pc = "add_scan", !.i = 1,
                         !.item = DictGet(items_db, frames[t].item_id),
                         !.cart = DictGet(carts_db, frames[t].cart_id)]]
    /\ UNCHANGED store

(* lines 134-135, 138: one turn of the for loop over cart.items *)
add_scan(t) ==
    /\ frames[t].pc = "add_scan"
    /\ LET f == frames[t]
           items == cart_objs[f.cart].items
       IN frames' = [frames EXCEPT ![t] =
             IF f.i > Len(items) THEN [@ EXCEPT !.pc = "add_append"]
             ELSE IF items[f.i].id = item_objs[f.item].id THEN [@ EXCEPT !.pc = "add_read_quantity"]
             ELSE [@ EXCEPT !.i = f.i + 1]]
    /\ UNCHANGED store

(* line 136, first half: read cart_item.quantity *)
add_read_quantity(t) ==
    /\ frames[t].pc = "add_read_quantity"
    /\ frames' = [frames EXCEPT ![t].pc = "add_write_quantity",
                                ![t].tmp = cart_objs[frames[t].cart].items[frames[t].i].quantity + 1]
    /\ UNCHANGED store

(* line 136, second half: store cart_item.quantity *)
add_write_quantity(t) ==
    /\ frames[t].pc = "add_write_quantity"
    /\ cart_objs' = [cart_objs EXCEPT ![frames[t].cart].items[frames[t].i].quantity = frames[t].tmp]
    /\ frames' = [frames EXCEPT ![t].pc = "add_read_price"]
    /\ UNCHANGED <<items_db, item_objs, carts_db>>

(* line 139: cart.items.append(CartItem(id=item.id, name=item.name, quantity=1)) *)
add_append(t) ==
    /\ frames[t].pc = "add_append"
    /\ LET item == item_objs[frames[t].item]
       IN cart_objs' = [cart_objs EXCEPT ![frames[t].cart].items = Append(@, NewCartItem(item.id, item.name, 1))]
    /\ frames' = [frames EXCEPT ![t].pc = "add_read_price"]
    /\ UNCHANGED <<items_db, item_objs, carts_db>>

(* line 140, first half: read cart.price and item.price, add *)
add_read_price(t) ==
    /\ frames[t].pc = "add_read_price"
    /\ frames' = [frames EXCEPT ![t].pc = "add_write_price",
                                ![t].tmp = FlAdd(cart_objs[frames[t].cart].price, item_objs[frames[t].item].price)]
    /\ UNCHANGED store

(* lines 140-141: store cart.price; return cart *)
add_write_price(t) ==
    /\ frames[t].pc = "add_write_price"
    /\ cart_objs' = [cart_objs EXCEPT ![frames[t].cart].price = frames[t].tmp]
    /\ frames' = [frames EXCEPT ![t].pc = "done", ![t].status = 200]
    /\ UNCHANGED <<items_db, item_objs, carts_db>>

ThreadNext ==
    \/ \E t \in Threads, name \in Names : Begin(t, "create_item", name, 3, 0, 0)
    \/ \E t \in Threads : Begin(t, "create_cart", "", 0, 0, 0)
    \/ \E t \in Threads, cart_id \in {1, 2}, item_id \in {1, 2} : Begin(t, "add_to_cart", "", 0, cart_id, item_id)
    \/ \E t \in Threads : create_item_len(t)
    \/ \E t \in Threads : create_item_store(t)
    \/ \E t \in Threads : create_cart_len(t)
    \/ \E t \in Threads : create_cart_store(t)
    \/ \E t \in Threads : add_check(t)
    \/ \E t \in Threads : add_scan(t)
    \/ \E t \in Threads : add_read_quantity(t)
    \/ \E t \in Threads : add_write_quantity(t)
    \/ \E t \in Threads : add_append(t)
    \/ \E t \in Threads : add_read_price(t)
    \/ \E t \in Threads : add_write_price(t)

ThreadSpec == Init /\ [][ThreadNext]_vars

----------------------------------------------------------------------------
(* Repeated additions: the item store is edited only while every cart is   *)
(* empty, so an item keeps its price from the first addition on.           *)

RepeatNext ==
    \/ Len(items_db) < 2 /\ \E name \in Names, price \in PostPrices : create_item(name, price)
    \/ TotalQuantity(cart_objs) = 0 /\ \E id \in 1..2, name \in Names, price \in PostPrices : update_item(id, name, price)
    \/ TotalQuantity(cart_objs) = 0 /\ \E id \in 1..2, body \in Bodies : patch_item(id, body)
    \/ \E id \in 1..2 : delete_item(id)
    \/ carts_db = <<>> /\ create_cart
    \/ TotalQuantity(cart_objs) < MaxRepeat /\ \E item_id \in 1..2 : add_to_cart(1, item_id)

RepeatSpec == Init /\ [][RepeatNext]_vars

----------------------------------------------------------------------------
(* Properties *)

(* the items and carts bound to keys, in creation order *)
Items == [i \in 1..Len(items_db) |-> item_objs[items_db[i].ref]]

Carts == [i \in 1..Len(carts_db) |-> cart_objs[carts_db[i].ref]]

HasUnknownKey(body) == \E i \in 1..Len(body) : body[i].key \notin allowed_fields

(* C1: PATCH of an existing, non-deleted item with a body holding a key
   outside {name, price} answers 422 and leaves the item as it was, whatever
   the body and the order of its keys. *)
C1_UnknownKeyLeavesItem ==
    [][\A id \in ItemIds, body \in Bodies :
          (/\ DictHas(items_db, id)
           /\ ~ItemOf(id).deleted
           /\ HasUnknownKey(body)
           /\ patch_item(id, body))
          => (/\ patch_item_response(id, body).status = 422
              /\ ItemOf(id)' = ItemOf(id))]_vars

(* C2: every item of the item store has a non-negative price. *)
C2_PricesNonNegative == \A i \in 1..Len(Items) : Items[i].price >= 0

(* C5: under sequential execution a Create is given an id no entry of its
   store has, the n-th Create of a store is given id n, and no id ever leaves
   a store (so none is given out again). *)
C5_FreshSequentialIds ==
    [][(items_db' # items_db \/ carts_db' # carts_db) =>
       /\ DictKeys(items_db) \subseteq DictKeys(items_db')
       /\ DictKeys(carts_db) \subseteq DictKeys(carts_db')
       /\ \A name \in Names, price \in PostPrices :
             (ItemPostValid(name, price) /\ create_item(name, price))
             => \A id \in {create_item_response(name, price).body.id} :
                   /\ id \notin DictKeys(items_db)
                   /\ DictKeys(items_db') = 1..id
                   /\ Len(items_db') = id
                   /\ ItemOf(id)'.id = id
       /\ create_cart
             => \A id \in {create_cart_response.body.id} :
                   /\ id \notin DictKeys(carts_db)
                   /\ DictKeys(carts_db') = 1..id
                   /\ Len(carts_db') = id
                   /\ CartOf(id)'.id = id]_vars

(* a second item is created after the first was soft-deleted or replaced *)
C5_Witness ==
    /\ Len(items_db) = 2
    /\ Len(carts_db) = 2
    /\ ItemOf(1).deleted
    /\ ItemOf(2).id = 2

(* the cart's price after the step is at least its price before, for each cart *)
CartPricesGrow == \A i \in 1..Len(Carts) : Carts'[i].price >= Carts[i].price

(* the step is an AddItem of item_id to cart_id that got past the 404 checks;
   such a step always changes a cart object (it appends a CartItem or raises
   a quantity), which is tested first *)
AddCall(cart_id, item_id) ==
    /\ cart_objs' # cart_objs
    /\ AddAccepted(cart_id, item_id)
    /\ add_to_cart(cart_id, item_id)

(* the step is a successful AddItem of item_id to cart_id *)
AddStep(cart_id, item_id) ==
    /\ AddCall(cart_id, item_id)
    /\ add_to_cart_response(cart_id, item_id).status = 200

(* C7, as claimed: a successful AddItem raises the cart's price by exactly
   the item's price at the moment of the call. *)
C7_AddsExactPrice ==
    [][\A cart_id \in CartIds, item_id \in ItemIds :
          AddStep(cart_id, item_id)
          => CartOf(cart_id)'.price = CartOf(cart_id).price + ItemOf(item_id).price]_vars

(* C7, amended: a successful AddItem sets the cart's price to the float sum
   (rounded to nearest) of its price and the item's price at the moment of the
   call, whether the CartItem is appended or incremented; every other step
   leaves every cart's price as it was. *)
C7_AddsFloatPrice ==
    [][/\ \A cart_id \in CartIds, item_id \in ItemIds :
             AddStep(cart_id, item_id)
             => CartOf(cart_id)'.price = FlAdd(CartOf(cart_id).price, ItemOf(item_id).price)
       /\ (\E i \in 1..Len(Carts) : Carts'[i].price # Carts[i].price)
             => \E cart_id \in CartIds, item_id \in ItemIds : AddStep(cart_id, item_id)]_vars

(* two additions of one item to a cart, an append and then an increment, the
   item now priced 2: the cart's price is the float sum of the prices added *)
C7_Witness ==
    \E i \in 1..Len(Carts) :
        /\ Len(Carts[i].items) = 1
        /\ Carts[i].items[1].quantity = 2
        /\ ItemOf(Carts[i].items[1].id).price = 2
        /\ Carts[i].price = FlAdd(3, 2)

(* C8: no step lowers the price of a cart. *)
C8_CartPriceNeverDecreases == [][CartPricesGrow]_vars

(* C9: no cart holds two CartItems with the same id. *)
C9_OneCartItemPerItem ==
    \A c \in 1..Len(Carts) :
        \A i, j \in 1..Len(Carts[c].items) :
            i # j => Carts[c].items[i].id # Carts[c].items[j].id

(* an item added twice to one cart: the second addition incremented *)
C9_Witness ==
    \E c \in 1..Len(Carts) :
        /\ Len(Carts[c].items) = 1
        /\ Carts[c].items[1].quantity = 2
        /\ Carts[c].items[1].id = 2

InWindow(pos, offset, limit) == offset < pos /\ pos <= offset + limit

WithinBounds(x, lo, hi) == (lo = None \/ x >= lo) /\ (hi = None \/ x <= hi)

Returned(response, id) == \E j \in 1..Len(response.body) : response.body[j].id = id

(* C10: while an item is soft-deleted, Get answers 404, List without
   show_deleted never returns it, and List with show_deleted returns it when
   it lies in the window and within the price bounds. *)
C10_DeletedHidden ==
    \A pos \in 1..Len(Items) :
        Items[pos].deleted =>
            /\ get_item_response(items_db[pos].k).status = 404
            /\ \A offset \in Offsets, limit \in Limits, min_price \in PriceBounds, max_price \in PriceBounds :
                  /\ ~Returned(get_item_list_response(offset, limit, min_price, max_price, FALSE), Items[pos].id)
                  /\ (InWindow(pos, offset, limit) /\ WithinBounds(Items[pos].price, min_price, max_price))
                        => Returned(get_item_list_response(offset, limit, min_price, max_price, TRUE), Items[pos].id)

(* a soft-deleted item behind an active one *)
C10_Witness ==
    /\ Len(Items) = 2
    /\ ~Items[1].deleted
    /\ Items[2].deleted

(* thread u's request arrived while thread t was inside the request it has
   now finished, and both have returned *)
RanConcurrently(t, u, op) ==
    /\ t # u
    /\ frames[t].pc = "done" /\ frames[u].pc = "done"
    /\ frames[t].op = op /\ frames[u].op = op
    /\ frames[t].overlap = 0
    /\ frames[u].overlap = frames[t].n

(* C3: two AddItem requests for the same item on the same cart that run
   concurrently leave the cart as two additions one after the other do:
   one CartItem more at most, its quantity raised by 2, the price raised
   twice by the item's price. *)
C3_ConcurrentAddsDoNotInterleave ==
    \A t, u \in Threads :
        (/\ RanConcurrently(t, u, "add_to_cart")
         /\ frames[t].status = 200 /\ frames[u].status = 200
         /\ frames[t].cart = frames[u].cart
         /\ frames[t].item = frames[u].item)
        => LET item == item_objs[frames[t].item]
           IN cart_objs[frames[t].cart] = AddItem(AddItem(frames[t].entry[1], item), item)

(* C4: two Create requests on the same store that run concurrently are
   given different ids, and both ids are keys of the store afterwards. *)
C4_ConcurrentCreatesDistinct ==
    \A t, u \in Threads :
        /\ RanConcurrently(t, u, "create_item")
              => /\ frames[t].i # frames[u].i
                 /\ {frames[t].i, frames[u].i} \subseteq DictKeys(items_db)
        /\ RanConcurrently(t, u, "create_cart")
              => /\ frames[t].i # frames[u].i
                 /\ {frames[t].i, frames[u].i} \subseteq DictKeys(carts_db)

(* the only CartItem of the cart, if any, is for item id *)
HoldsOnly(cart, id) == \A j \in 1..Len(cart.items) : cart.items[j].id = id

(* a successful AddItem of item_id to cart 1, which holds nothing else, is the
   k-th of them: the cart then holds one CartItem, for that item, of quantity k *)
RepeatedAdd(item_id, k) ==
    /\ AddAccepted(1, item_id)
    /\ add_to_cart(1, item_id)
    /\ HoldsOnly(CartOf(1), item_id)
    /\ SumQuantity(CartOf(1).items) = k - 1

OneCartItem(cart, id, k) ==
    /\ Len(cart.items) = 1
    /\ cart.items[1].id = id
    /\ cart.items[1].quantity = k

(* C6, as claimed: for every k, the k-th of k successful AddItem calls of one
   item on an initially empty cart, the item unchanged meanwhile, leaves one
   CartItem of quantity k and a price of k times the item's price. *)
C6_RepeatedAddsMultiply ==
    [][\A item_id \in 1..2, k \in 1..MaxRepeat :
          RepeatedAdd(item_id, k)
          => /\ OneCartItem(CartOf(1)', item_id, k)
             /\ CartOf(1)'.price = FlMul(k, ItemOf(item_id).price)]_vars

(* C6, amended: the same for k up to 5; from k = 6 on the price is the
   running float sum of k additions, which need not be k times the price. *)
C6_RepeatedAddsUpToFive ==
    [][\A item_id \in 1..2, k \in 1..MaxRepeat :
          RepeatedAdd(item_id, k)
          => /\ OneCartItem(CartOf(1)', item_id, k)
             /\ CartOf(1)'.price = FlAdd(CartOf(1).price, ItemOf(item_id).price)
             /\ k <= 5 => CartOf(1)'.price = FlMul(k, ItemOf(item_id).price)]_vars

(* five additions of one item *)
C6_Witness ==
    /\ Len(carts_db) = 1
    /\ Len(CartOf(1).items) = 1
    /\ CartOf(1).items[1].quantity = 5
    /\ CartOf(1).price = FlMul(5, ItemOf(CartOf(1).items[1].id).price)
    /\ CartOf(1).price # 0

(* C11: an item's deleted flag goes from false to true only in a successful
   SoftDelete of its id and from true to false only in a successful Replace
   of its id; a Replace of a soft-deleted item succeeds and leaves it active,
   so that Get succeeds and AddItem is accepted again.  (Every step this is
   about changes an item object, hence the premise.) *)
C11_ItemLifecycle ==
    [][item_objs' # item_objs => \A id \in DictKeys(items_db) :
          /\ (~ItemOf(id).deleted /\ ItemOf(id)'.deleted)
                => (delete_item_response(id).status = 200 /\ delete_item(id))
          /\ (ItemOf(id).deleted /\ ~ItemOf(id)'.deleted)
                => \E name \in Names, price \in PostPrices :
                      /\ update_item_response(id, name, price).status = 200
                      /\ update_item(id, name, price)
          /\ \A name \in Names, price \in PostPrices :
                (/\ ItemOf(id).deleted
                 /\ ItemPostValid(name, price)
                 /\ update_item(id, name, price))
                => /\ update_item_response(id, name, price).status = 200
                   /\ ~ItemOf(id)'.deleted
                   /\ get_item_response(id)'.status = 200
                   /\ \A cart_id \in DictKeys(carts_db) : AddAccepted(cart_id, id)']_vars

(* an item that was soft-deleted after it was put in a cart *)
C11_Witness ==
    /\ Len(Items) = 2
    /\ Items[1].deleted
    /\ ~Items[2].deleted
    /\ \E c \in 1..Len(Carts) : \E j \in 1..Len(Carts[c].items) : Carts[c].items[j].id = 1

(* C12: PATCH of a soft-deleted item answers 304 whatever the body (empty,
   or with keys outside {name, price}) and changes nothing; PATCH of an id
   that is not in the store answers 404 and changes nothing: no step that
   changes the stores is such a PATCH. *)
C12_PatchDeletedNotModified ==
    /\ [](\A body \in Bodies, id \in ItemIds :
             /\ (DictHas(items_db, id) /\ ItemOf(id).deleted)
                   => patch_item_response(id, body).status = 304
             /\ ~DictHas(items_db, id)
                   => patch_item_response(id, body).status = 404)
    /\ [][store' # store =>
             \A id \in ItemIds :
                (~DictHas(items_db, id) \/ ItemOf(id).deleted)
                => \A body \in Bodies : ~patch_item(id, body)]_vars

(* a soft-deleted item whose name and price were patched before *)
C12_Witness ==
    /\ Len(Items) = 2
    /\ Items[2].deleted
    /\ Items[2].price = 2
    /\ Items[2].name = "ink"

(* the cart id is absent, the item id is absent, or the item is soft-deleted *)
AddRefused(cart_id, item_id) ==
    \/ ~DictHas(carts_db, cart_id)
    \/ ~DictHas(items_db, item_id)
    \/ ItemOf(item_id).deleted

(* C13: AddItem with an absent cart id, an absent item id or a soft-deleted
   item answers 404 and changes neither store (no step that changes the
   stores is such an AddItem); a SoftDelete leaves every cart as it is, and
   after it every AddItem of the item answers 404. *)
C13_AddRefusedNotFound ==
    /\ [](\A cart_id \in CartIds, item_id \in ItemIds :
             AddRefused(cart_id, item_id)
             => add_to_cart_response(cart_id, item_id).status = 404)
    /\ [][store' # store =>
             /\ \A cart_id \in CartIds, item_id \in ItemIds :
                   AddRefused(cart_id, item_id) => ~add_to_cart(cart_id, item_id)
             /\ \A id \in DictKeys(items_db) :
                   delete_item(id)
                   => /\ <<carts_db, cart_objs>>' = <<carts_db, cart_objs>>
                      /\ \A cart_id \in CartIds :
                            add_to_cart_response(cart_id, id)'.status = 404]_vars

(* a soft-deleted item that a cart holds from before *)
C13_Witness ==
    \E c \in 1..Len(Carts) :
        /\ Len(Carts[c].items) = 1
        /\ Carts[c].items[1].quantity = 1
        /\ ItemOf(Carts[c].items[1].id).deleted
        /\ Carts[c].price = 3

(* the items among positions lo..hi of the store, in that order, that the
   filter of Item List lets through *)
RECURSIVE ItemsListed(_, _, _, _, _)
ItemsListed(lo, hi, min_price, max_price, show_deleted) ==
    IF lo > hi \/ lo > Len(Items) THEN <<>>
    ELSE LET item == Items[lo]
             rest == ItemsListed(lo + 1, hi, min_price, max_price, show_deleted)
         IN IF /\ (show_deleted \/ ~item.deleted)
               /\ WithinBounds(item.price, min_price, max_price)
            THEN <<item>> \o rest
            ELSE rest

(* C14: Item List returns exactly the items at positions offset+1 ..
   offset+limit of the creation-ordered store (deleted ones counted, an item
   at the position of its id even after a Replace) that pass the filter, in
   that order; with offset 0 and limit 10 these are all items that pass the
   filter, with offset 5 none. *)
C14_ItemListWindow ==
    /\ \A pos \in 1..Len(Items) : Items[pos].id = pos
    /\ \A offset \in Offsets \cup {5}, limit \in Limits \cup {10},
          min_price \in PriceBounds, max_price \in PriceBounds, show_deleted \in BOOLEAN :
          get_item_list_response(offset, limit, min_price, max_price, show_deleted)
             = Response(200, ItemsListed(offset + 1, offset + limit, min_price, max_price, show_deleted))
    /\ get_item_list_response(0, 10, None, None, TRUE).body = Items
    /\ get_item_list_response(5, 10, None, None, TRUE).body = <<>>

(* a soft-deleted item in the window before an active item outside it, the
   first one replaced and deleted again (its name and price are new) *)
C14_Witness ==
    /\ Len(Items) = 2
    /\ Items[1].deleted /\ Items[1].name = "ink" /\ Items[1].price = 3
    /\ ~Items[2].deleted /\ Items[2].name = "pen" /\ Items[2].price = 2

(* the quantities of a cart's CartItems, added up from the last one *)
QuantitySum(cart) ==
    LET sum[n \in 0..Len(cart.items)] ==
            IF n = 0 THEN 0 ELSE sum[n - 1] + cart.items[n].quantity
    IN sum[Len(cart.items)]

(* the carts among positions lo..hi of the store, in that order, that the
   filter of Cart List lets through *)
RECURSIVE CartsListed(_, _, _, _, _, _)
CartsListed(lo, hi, min_price, max_price, min_quantity, max_quantity) ==
    IF lo > hi \/ lo > Len(Carts) THEN <<>>
    ELSE LET cart == Carts[lo]
             rest == CartsListed(lo + 1, hi, min_price, max_price, min_quantity, max_quantity)
         IN IF /\ WithinBounds(cart.price, min_price, max_price)
               /\ WithinBounds(QuantitySum(cart), min_quantity, max_quantity)
            THEN <<cart>> \o rest
            ELSE rest

(* C15: Cart List returns exactly the carts at positions offset+1 ..
   offset+limit of the creation-ordered store whose price is within the price
   bounds and whose quantities add up to a number within the quantity bounds
   (0 for an empty cart; each bound optional and inclusive), in that order. *)
C15_CartListWindow ==
    \A offset \in Offsets, limit \in Limits,
       min_price \in {None, 3}, max_price \in {None, 3},
       min_quantity \in {None, 1}, max_quantity \in {None, 1} :
       get_cart_list_response(offset, limit, min_price, max_price, min_quantity, max_quantity)
          = Response(200, CartsListed(offset + 1, offset + limit, min_price, max_price,
                                      min_quantity, max_quantity))

(* an empty cart before a cart that holds one CartItem of quantity 2 *)
C15_Witness ==
    /\ Len(Carts) = 2
    /\ Carts[1].items = <<>>
    /\ Len(Carts[2].items) = 1
    /\ Carts[2].items[1].quantity = 2
    /\ Carts[2].price = 6

(* the step changes a cart that exists, or adds one *)
CartsChange == <<carts_db, cart_objs>>' # <<carts_db, cart_objs>>

(* C16: only AddItem mutates a cart.  A step that changes a cart or adds one
   is no item Create, Replace, PartialUpdate or SoftDelete, and a step that
   changes an existing cart is an AddItem; that AddItem leaves the names and
   ids of the CartItems the cart holds as they are (a repeated addition of a
   renamed item raises the quantity only), a new CartItem gets the item's
   current name, and the other carts stay as they are. *)
C16_OnlyAddItemMutatesCarts ==
    [][CartsChange =>
          /\ \A name \in Names, price \in PostPrices : ~create_item(name, price)
          /\ \A id \in ItemIds :
                /\ ~delete_item(id)
                /\ \A name \in Names, price \in PostPrices : ~update_item(id, name, price)
                /\ \A body \in Bodies \cup AnyBodies : ~patch_item(id, body)
          /\ (\E c \in 1..Len(Carts) : Carts'[c] # Carts[c])
                => \E cart_id \in CartIds, item_id \in ItemIds : AddCall(cart_id, item_id)
          /\ \A cart_id \in CartIds, item_id \in ItemIds :
                AddCall(cart_id, item_id)
                => LET old == CartOf(cart_id).items
                       new == CartOf(cart_id)'.items
                   IN /\ \A j \in 1..Len(old) :
                            /\ new[j].id = old[j].id
                            /\ new[j].name = old[j].name
                            /\ new[j].quantity = old[j].quantity + (IF old[j].id = item_id THEN 1 ELSE 0)
                      /\ IF \E j \in 1..Len(old) : old[j].id = item_id
                         THEN Len(new) = Len(old)
                         ELSE new = Append(old, NewCartItem(item_id, ItemOf(item_id).name, 1))
                      /\ \A c \in 1..Len(Carts) : Carts[c].id # cart_id => Carts'[c] = Carts[c]]_vars

(* a CartItem of quantity 2 that carries the name its item had before it was
   renamed *)
C16_Witness ==
    \E c \in 1..Len(Carts) :
        /\ Len(Carts[c].items) = 1
        /\ Carts[c].items[1].quantity = 2
        /\ Carts[c].items[1].name = "pen"
        /\ ItemOf(Carts[c].items[1].id).name = "ink"
        /\ Carts[c].price = FlAdd(3, 3)

(* C17: after a Create(name, price) that was accepted, Get of the id it
   returned answers 200 with that id, name and price, and the stored record
   is not deleted, whatever was done to the store before. *)
C17_GetAfterCreate ==
    [][items_db' # items_db =>
          \A name \in Names, price \in PostPrices :
             (ItemPostValid(name, price) /\ create_item(name, price))
             => /\ create_item_response(name, price).status = 201
                /\ \A id \in {create_item_response(name, price).body.id} :
                      /\ get_item_response(id)' = Response(200, [id |-> id, name |-> name, price |-> price])
                      /\ ItemOf(id)' = [id |-> id, name |-> name, price |-> price, deleted |-> FALSE]]_vars

(* a second item created after the first was patched and soft-deleted *)
C17_Witness ==
    /\ Len(Items) = 2
    /\ Items[1] = [id |-> 1, name |-> "ink", price |-> -1, deleted |-> TRUE]
    /\ Items[2] = [id |-> 2, name |-> "ink", price |-> 3, deleted |-> FALSE]

(* C18: SoftDelete of an id in the store answers 200 whether or not the item
   is deleted already, and of an id not in the store 404.  A SoftDelete that
   changes the stores is one of an item that was not deleted: it sets the
   flag and leaves the name, the price, the other items and the carts as they
   were, and a SoftDelete after it answers 200 again; so a second SoftDelete
   changes nothing, and neither does one of an id not in the store. *)
C18_SoftDeleteIdempotent ==
    /\ [](\A id \in ItemIds :
             delete_item_response(id).status = IF DictHas(items_db, id) THEN 200 ELSE 404)
    /\ [][store' # store =>
             \A id \in ItemIds :
                delete_item(id)
                => /\ DictHas(items_db, id)
                   /\ ~ItemOf(id).deleted
                   /\ ItemOf(id)' = [ItemOf(id) EXCEPT !.deleted = TRUE]
                   /\ \A other \in DictKeys(items_db) \ {id} : ItemOf(other)' = ItemOf(other)
                   /\ <<items_db, carts_db, cart_objs>>' = <<items_db, carts_db, cart_objs>>
                   /\ delete_item_response(id)'.status = 200]_vars

(* both items soft-deleted, one of them held by a cart *)
C18_Witness ==
    /\ Len(Items) = 2
    /\ Items[1].deleted
    /\ Items[2].deleted
    /\ \E c \in 1..Len(Carts) : Len(Carts[c].items) = 1 /\ Carts[c].items[1].id = 2

(* C19: the record under key k of either store has id k, the keys of a store
   are 1..n, a PATCH body with the key id is answered 422 on an item that is
   not deleted, and no step removes a key or changes the id of a record. *)
C19_IdsMatchKeys ==
    /\ [](/\ \A k \in DictKeys(items_db) : ItemOf(k).id = k
          /\ \A k \in DictKeys(carts_db) : CartOf(k).id = k
          /\ DictKeys(items_db) = 1..Len(items_db)
          /\ DictKeys(carts_db) = 1..Len(carts_db)
          /\ \A k \in DictKeys(items_db), body \in Bodies :
                (~ItemOf(k).deleted /\ \E i \in 1..Len(body) : body[i].key = "id")
                => patch_item_response(k, body).status = 422)
    /\ [][store' # store =>
             /\ \A k \in DictKeys(items_db) :
                   k \in DictKeys(items_db') /\ ItemOf(k)'.id = ItemOf(k).id
             /\ \A k \in DictKeys(carts_db) :
                   k \in DictKeys(carts_db') /\ CartOf(k)'.id = CartOf(k).id]_vars

(* two items, the first replaced and soft-deleted, the second patched, and
   two carts *)
C19_Witness ==
    /\ Len(Items) = 2
    /\ Len(Carts) = 2
    /\ Items[1] = [id |-> 1, name |-> "ink", price |-> 3, deleted |-> TRUE]
    /\ Items[2] = [id |-> 2, name |-> "pen", price |-> 2, deleted |-> FALSE]

(* C20: every CartItem has a quantity of at least 1 and the id of a key of
   the item store; no step removes a CartItem or lowers a quantity; and the
   quantities of a cart add up to the number of successful AddItem calls on
   it: a successful AddItem (answered 200) raises the sum by 1 and every
   other step leaves it as it is. *)
C20_QuantitiesCountAdds ==
    /\ [](\A c \in 1..Len(Carts) : \A j \in 1..Len(Carts[c].items) :
             /\ Carts[c].items[j].quantity >= 1
             /\ Carts[c].items[j].id \in DictKeys(items_db))
    /\ [][cart_objs' # cart_objs =>
             \A c \in 1..Len(Carts) :
                /\ Len(Carts'[c].items) >= Len(Carts[c].items)
                /\ \A j \in 1..Len(Carts[c].items) :
                      /\ Carts'[c].items[j].id = Carts[c].items[j].id
                      /\ Carts'[c].items[j].quantity >= Carts[c].items[j].quantity
                /\ SumQuantity(Carts'[c].items) =
                      SumQuantity(Carts[c].items) +
                         (IF \E item_id \in ItemIds :
                                /\ add_to_cart_response(Carts[c].id, item_id).status = 200
                                /\ add_to_cart(Carts[c].id, item_id)
                          THEN 1 ELSE 0)]_vars

====
